---- MODULE Spec2Model ----
(***************************************************************************)
(* Model of linux_thermaltake_rgb: the USB packet driver (drivers.py) and  *)
(* the lighting-effect engine (lighting_manager.py).                       *)
(*                                                                         *)
(* The module holds several specifications over one set of variables; each *)
(* one exercises one part of the program and leaves the variables of the   *)
(* other parts at their initial values:                                    *)
(*   SpecDriver      ThermaltakeControllerDriver.write_out and helpers      *)
(*   SpecCtor        the construction of a ThermaltakeG3ControllerDriver    *)
(*   SpecThread      start(), stop() and _main_loop of a periodic effect    *)
(*   FairSpecThread  the same, with the loop's thread scheduled fairly      *)
(*   SpecFactory     LightingEffect.factory                                 *)
(*   SpecOneShot     start() of the one-shot effects                        *)
(*   SpecTick        next() of the Temperature, Temperature2 and Clock      *)
(*                   effects                                                *)
(***************************************************************************)
EXTENDS Integers, Sequences, FiniteSets, TLC

VARIABLES
    \* ---- drivers.py: one ThermaltakeControllerDriver instance ----
    data,          \* the `data` argument of the running/last write_out call
    called,        \* "none" before any call, else the method last called
    handed,        \* the array the last call passed to endpoint_out.write
    transmitted,   \* TRUE iff the endpoint transmitted that array as a packet
    fault,         \* the exception that reached the caller of the last call
    \* ---- drivers.py: the construction of one ThermaltakeG3ControllerDriver ----
    product_id,    \* self.product_id, as init(unit) set it
    bus,           \* the product ids of the vendor's devices attached to the host
    kernel_driver_active,  \* what is_kernel_driver_active(0) reports for the device
    endpoints,     \* directions of the endpoints of interface (0, 0), in descriptor order
    device,        \* self.device: NoDevice for None, else the product id found
    detach,        \* "none", or how detach_kernel_driver(0) ended: "detached", "failed"
    endpoint_out,  \* self.endpoint_out
    endpoint_in,   \* self.endpoint_in
    usb_calls,     \* history: the steps of _initialize_device taken so far, in order
    ctor_pc,       \* the step __init__ is about to take, or "constructed" / "aborted"
    ctor_fault,    \* the exception that reached the caller of the constructor
    \* ---- lighting_manager.py: one ThreadedCustomLightingEffect instance ----
    _continue,     \* self._continue
    _thread,       \* self._thread: "initial" until Thread.start() succeeded, then "started"
    _devices,      \* self._devices: the attached devices, in attach order
    loops,         \* the executions of _main_loop: slot -> [pc, dev]
    caller_pc,     \* where the calling thread is: "idle", "start_thread", "stop_join"
    last_call,     \* how the caller's last start()/stop() ended
    starts_since_stop,   \* history: start() calls since the last stop() call
    ticks_after_clear,   \* history: next() calls begun since stop() cleared the flag
    \* ---- lighting_manager.py: LightingEffect.factory ----
    config,          \* the caller's configuration mapping
    factory_arg,     \* history: the mapping as it was passed to the last factory call
    factory_result,  \* "pending", "instance", "None", or the exception that reached the caller
    factory_model,   \* the model tag of the instance returned
    factory_warned,  \* TRUE iff the call logged a warning
    \* ---- lighting_manager.py: one ThermaltakeLightingEffect instance ----
    model,           \* the instance's model tag
    _config,         \* self._config: colour key -> value, for the keys present
    lighting,        \* the set_lighting calls of the last start(), in order
    start_result,    \* "pending", "returned", or the exception start() raised
    warned,          \* the key the last start() logged a warning for, or "none"
    \* ---- lighting_manager.py: one periodic effect instance and its next() ----
    kind,            \* "temperature", "temperature2" or "clock"
    cold, target, hot,     \* self.cold, self.target, self.hot
    cold_rgb, hot_rgb,     \* self.cold_rgb, self.hot_rgb: (g, r, b)
    timestamps,      \* self.timestamps: [time, r, g, b] per anchor
    cur_temp,        \* self.cur_temp
    angle,           \* self.angle
    cur_rgb,         \* self.cur_rgb
    factor,          \* the local `factor` of the last next()
    now,             \* datetime.datetime.now() at the last Clock tick
    prev,            \* history: reading and angle of the Temperature tick before
    tick_result      \* "pending", "returned", or the exception next() raised

driverVars == <<data, called, handed, transmitted, fault>>

ctorVars == <<product_id, bus, kernel_driver_active, endpoints, device, detach,
              endpoint_out, endpoint_in, usb_calls, ctor_pc, ctor_fault>>

threadVars == <<_continue, _thread, _devices, loops, caller_pc, last_call,
                starts_since_stop, ticks_after_clear>>

factoryVars == <<config, factory_arg, factory_result, factory_model, factory_warned>>

oneShotVars == <<model, _config, lighting, start_result, warned>>

tickVars == <<kind, cold, target, hot, cold_rgb, hot_rgb, timestamps, cur_temp,
              angle, cur_rgb, factor, now, prev, tick_result>>

vars == <<driverVars, ctorVars, threadVars, factoryVars, oneShotVars, tickVars>>

\* what the operations of one part leave alone
notDriver == <<threadVars, factoryVars, oneShotVars, tickVars>>

notThread == <<driverVars, ctorVars, factoryVars, oneShotVars, tickVars>>

notFactory == <<driverVars, ctorVars, threadVars, oneShotVars, tickVars>>

(***************************************************************************)
(* Bounds of the model.                                                    *)
(***************************************************************************)
MaxPayload == 66      \* longest payload passed to write_out
MaxLoops == 2         \* slots for executions of _main_loop
MaxDevices == 2       \* devices attached to one effect
CountCap == 2         \* the history counters saturate here
MaxTemp == 5          \* breakpoints are 0..MaxTemp, readings 0..MaxTemp + 1
MaxAnchors == 2       \* anchors of a Clock effect
MaxDays == 1          \* days the clock runs on past the day of construction
NumLeds == 2          \* dev.num_leds of every attached device
MaxUnit == 2          \* controller units 1..MaxUnit
MaxEndpoints == 2     \* endpoints an interface describes

(***************************************************************************)
(* drivers.py                                                              *)
(***************************************************************************)
\* default value of the `length` parameter of write_out / _populate_partial_data_array
PacketLength == 64

\* a faulty _generate_data_array: range(length - 1), one element short
GenerateDataArrayShort(length, value) ==
    IF length > 1 THEN [i \in 1..(length - 1) |-> value] ELSE <<>>

\* _generate_data_array: [value for _ in range(length)]; range of a
\* non-positive length is empty
GenerateDataArray(length, value) ==
    IF length > 0 THEN [i \in 1..length |-> value] ELSE <<>>

\* _populate_partial_data_array: array = list(in_array); array.extend(zeros)
PopulatePartialDataArray(in_array, length) ==
    in_array \o GenerateDataArray(length - Len(in_array), 0)

\* endpoint_out.write(array): the USB library packs the list into an array of
\* unsigned bytes, which raises OverflowError for an element outside 0..255,
\* and otherwise transmits the whole array, whatever its length.  A transfer
\* the device or the bus fails (usb_ok = FALSE) raises USBError instead.
ByteOverflow(array) ==
    \E i \in 1..Len(array) : array[i] < 0 \/ array[i] > 255

\* Payloads the callers pass: n bytes counting up from `seed`; `bad` puts a
\* value that is no byte (256) in the first position.
Payload(n, seed, bad) ==
    [i \in 1..n |-> IF bad /\ i = 1 THEN 256 ELSE (seed + i) % 256]

Seeds == {0, 250}

Payloads ==
    {Payload(n, s, b) : n \in 0..MaxPayload, s \in Seeds, b \in BOOLEAN}

DriverIdle ==
    /\ data = <<>>
    /\ called = "none"
    /\ handed = <<>>
    /\ transmitted = FALSE
    /\ fault = "none"

\* write_out(data, length): try: endpoint_out.write(populate(data, length))
\*                          except OverflowError: return
WriteOutBody(d, length, usb_ok) ==
    LET array == PopulatePartialDataArray(d, length) IN
    /\ data' = d
    /\ handed' = array
    /\ IF ByteOverflow(array)
         THEN /\ transmitted' = FALSE
              /\ fault' = "none"
         ELSE /\ transmitted' = usb_ok
              /\ fault' = IF usb_ok THEN "none" ELSE "USBError"
    /\ UNCHANGED notDriver

WriteOut ==
    \E d \in Payloads, usb_ok \in BOOLEAN :
        /\ called' = "write_out"
        /\ WriteOutBody(d, PacketLength, usb_ok)
        /\ UNCHANGED ctorVars

\* save_profile: self.write_out([0x32, 0x53])
SaveProfile ==
    \E usb_ok \in BOOLEAN :
        /\ called' = "save_profile"
        /\ WriteOutBody(<<50, 83>>, PacketLength, usb_ok)
        /\ UNCHANGED ctorVars

\* ThermaltakeG3ControllerDriver.init_controller: self.write_out([0xfe, 0x33])
InitController ==
    \E usb_ok \in BOOLEAN :
        /\ called' = "init_controller"
        /\ WriteOutBody(<<254, 51>>, PacketLength, usb_ok)
        /\ UNCHANGED ctorVars

NextDriver ==
    \/ WriteOut
    \/ SaveProfile
    \/ InitController

(***************************************************************************)
(* drivers.py: __init__ and _initialize_device of a                        *)
(* ThermaltakeG3ControllerDriver.  The host's USB side is the environment: *)
(* which devices are attached, whether a kernel driver holds interface 0,  *)
(* which endpoints the interface describes, and whether each call on the   *)
(* device succeeds or raises USBError.                                     *)
(***************************************************************************)
\* ThermaltakeG3ControllerDriver.PRODUCT_ID_BASE (0x1fa5)
PRODUCT_ID_BASE == 8101

\* the value of self.device when find() returned None
NoDevice == 0

\* init(unit): self.product_id = self.PRODUCT_ID_BASE + (unit - 1)
ProductId(unit) == PRODUCT_ID_BASE + (unit - 1)

Units == 1..MaxUnit

ProductIds == {ProductId(unit) : unit \in Units}

\* the endpoint lists an interface may describe
RECURSIVE EndpointLists(_)
EndpointLists(n) ==
    IF n = 0 THEN {<<>>}
    ELSE LET shorter == EndpointLists(n - 1) IN
         shorter \cup {Append(l, d) : l \in {m \in shorter : Len(m) = n - 1},
                                      d \in {"OUT", "IN"}}

\* an endpoint attribute that holds None, and one not assigned yet
NoEndpoint == [index |-> 0, direction |-> "None"]

UnsetEndpoint == [index |-> 0, direction |-> "unset"]

\* usb.core.find(idVendor=..., idProduct=...): the attached device with that
\* product id, or None
Find(attached, idProduct) ==
    IF idProduct \in attached THEN idProduct ELSE NoDevice

\* usb.util.find_descriptor(interface, custom_match=direction is `dir`): the
\* first endpoint of the interface that matches, or None
FindDescriptor(eps, dir) ==
    LET matches == {i \in 1..Len(eps) : eps[i] = dir} IN
    IF matches = {} THEN NoEndpoint
    ELSE LET first == CHOOSE i \in matches : \A j \in matches : i <= j IN
         [index |-> first, direction |-> eps[first]]

\* the state before __init__ runs _initialize_device
CtorIdle ==
    /\ product_id = PRODUCT_ID_BASE
    /\ bus = {}
    /\ kernel_driver_active = FALSE
    /\ endpoints = <<>>
    /\ device = NoDevice
    /\ detach = "none"
    /\ endpoint_out = UnsetEndpoint
    /\ endpoint_in = UnsetEndpoint
    /\ usb_calls = <<>>
    /\ ctor_pc = "find"
    /\ ctor_fault = "none"

\* one step of _initialize_device ends: the call `step` is recorded, and the
\* constructor either goes on to `next_pc` or is left by the exception `e`
StepEnds(step, next_pc, e) ==
    /\ usb_calls' = Append(usb_calls, step)
    /\ ctor_pc' = IF e = "none" THEN next_pc ELSE "aborted"
    /\ ctor_fault' = e

\* a call on the device returns, or raises USBError
UsbOutcome(ok) == IF ok THEN "none" ELSE "USBError"

\* self.device = usb.core.find(...); if self.device is None: raise ValueError
FindDevice ==
    /\ ctor_pc = "find"
    /\ device' = Find(bus, product_id)
    /\ StepEnds("find", "reset",
                IF Find(bus, product_id) = NoDevice THEN "ValueError" ELSE "none")
    /\ UNCHANGED <<product_id, bus, kernel_driver_active, endpoints, detach,
                   endpoint_out, endpoint_in>>
    /\ UNCHANGED <<driverVars, notDriver>>

\* self.device.reset()
ResetDevice ==
    /\ ctor_pc = "reset"
    /\ \E ok \in BOOLEAN : StepEnds("reset", "kernel_driver", UsbOutcome(ok))
    /\ UNCHANGED <<product_id, bus, kernel_driver_active, endpoints, device, detach,
                   endpoint_out, endpoint_in>>
    /\ UNCHANGED <<driverVars, notDriver>>

\* a faulty handler round detach_kernel_driver, which lets the exception through
DetachCatchesNothing(e) == FALSE

\* the handler round detach_kernel_driver: except Exception
DetachCatches(e) == TRUE

\* if self.device.is_kernel_driver_active(0):
\*     try: self.device.detach_kernel_driver(0)
\*     except Exception: LOGGER.warning(...)
DetachKernelDriver ==
    /\ ctor_pc = "kernel_driver"
    /\ IF kernel_driver_active
         THEN \E ok \in BOOLEAN :
                  /\ detach' = IF ok THEN "detached" ELSE "failed"
                  /\ StepEnds("detach_kernel_driver", "set_configuration",
                              IF ok \/ DetachCatches("USBError") THEN "none"
                              ELSE "USBError")
         ELSE /\ detach' = "none"
              /\ UNCHANGED <<usb_calls, ctor_fault>>
              /\ ctor_pc' = "set_configuration"
    /\ UNCHANGED <<product_id, bus, kernel_driver_active, endpoints, device,
                   endpoint_out, endpoint_in>>
    /\ UNCHANGED <<driverVars, notDriver>>

\* self.device.set_configuration()
SetConfiguration ==
    /\ ctor_pc = "set_configuration"
    /\ \E ok \in BOOLEAN :
           StepEnds("set_configuration", "claim_interface", UsbOutcome(ok))
    /\ UNCHANGED <<product_id, bus, kernel_driver_active, endpoints, device, detach,
                   endpoint_out, endpoint_in>>
    /\ UNCHANGED <<driverVars, notDriver>>

\* try: usb.util.claim_interface(self.device, 0)
\* except usb.core.USBError as e: LOGGER.error(...); raise e
ClaimInterface ==
    /\ ctor_pc = "claim_interface"
    /\ \E ok \in BOOLEAN :
           StepEnds("claim_interface", "endpoint_out", UsbOutcome(ok))
    /\ UNCHANGED <<product_id, bus, kernel_driver_active, endpoints, device, detach,
                   endpoint_out, endpoint_in>>
    /\ UNCHANGED <<driverVars, notDriver>>

\* self.endpoint_out = find_descriptor(... == ENDPOINT_OUT)
\* assert self.endpoint_out is not None
\* (the assert statements are executed: the interpreter runs without -O)
DiscoverEndpointOut ==
    /\ ctor_pc = "endpoint_out"
    /\ endpoint_out' = FindDescriptor(endpoints, "OUT")
    /\ StepEnds("endpoint_out", "endpoint_in",
                IF FindDescriptor(endpoints, "OUT") = NoEndpoint
                THEN "AssertionError" ELSE "none")
    /\ UNCHANGED <<product_id, bus, kernel_driver_active, endpoints, device, detach,
                   endpoint_in>>
    /\ UNCHANGED <<driverVars, notDriver>>

\* self.endpoint_in = find_descriptor(... == ENDPOINT_IN)
\* assert self.endpoint_in is not None
DiscoverEndpointIn ==
    /\ ctor_pc = "endpoint_in"
    /\ endpoint_in' = FindDescriptor(endpoints, "IN")
    /\ StepEnds("endpoint_in", "init_controller",
                IF FindDescriptor(endpoints, "IN") = NoEndpoint
                THEN "AssertionError" ELSE "none")
    /\ UNCHANGED <<product_id, bus, kernel_driver_active, endpoints, device, detach,
                   endpoint_out>>
    /\ UNCHANGED <<driverVars, notDriver>>

\* self.init_controller(), the last statement of _initialize_device: the
\* write_out of [0xfe, 0x33]; a USBError of the transfer leaves the constructor
SendInitPacket ==
    /\ ctor_pc = "init_controller"
    /\ \E usb_ok \in BOOLEAN :
           /\ called' = "init_controller"
           /\ WriteOutBody(<<254, 51>>, PacketLength, usb_ok)
           /\ StepEnds("init_controller", "constructed", UsbOutcome(usb_ok))
    /\ UNCHANGED <<product_id, bus, kernel_driver_active, endpoints, device, detach,
                   endpoint_out, endpoint_in>>

NextCtor ==
    \/ FindDevice
    \/ ResetDevice
    \/ DetachKernelDriver
    \/ SetConfiguration
    \/ ClaimInterface
    \/ DiscoverEndpointOut
    \/ DiscoverEndpointIn
    \/ SendInitPacket

(***************************************************************************)
(* lighting_manager.py: ThreadedCustomLightingEffect                       *)
(*                                                                         *)
(* __init__ creates ONE Thread object for the instance (line 110); start() *)
(* and stop() are called one after the other by the calling thread, and    *)
(* the Thread runs _main_loop.  A Thread object can be started once: a     *)
(* further Thread.start() raises RuntimeError, and Thread.join() on a      *)
(* Thread that was never started raises RuntimeError.                      *)
(***************************************************************************)
LoopSlots == 1..MaxLoops

Running(l) == loops[l].pc \notin {"unspawned", "exited"}

Spawned == {l \in LoopSlots : loops[l].pc # "unspawned"}

Bump(n) == IF n < CountCap THEN n + 1 ELSE n

\* __init__ (lines 68-71, 97-100, 107-110)
ThreadIdle ==
    /\ _continue = FALSE
    /\ _thread = "initial"
    /\ _devices = <<>>
    /\ loops = [l \in LoopSlots |-> [pc |-> "unspawned", dev |-> 0]]
    /\ caller_pc = "idle"
    /\ last_call = "none"
    /\ starts_since_stop = 0
    /\ ticks_after_clear = 0

\* attach_device: self._devices.append(device)
AttachDevice ==
    /\ caller_pc = "idle"
    /\ Len(_devices) < MaxDevices
    /\ _devices' = Append(_devices, Len(_devices) + 1)
    /\ UNCHANGED <<_continue, _thread, loops, caller_pc, last_call,
                   starts_since_stop, ticks_after_clear>>
    /\ UNCHANGED notThread

\* start(), line 113: self._continue = True
StartSetFlag ==
    /\ caller_pc = "idle"
    /\ _continue' = TRUE
    /\ caller_pc' = "start_thread"
    /\ starts_since_stop' = Bump(starts_since_stop)
    /\ UNCHANGED <<_thread, _devices, loops, last_call, ticks_after_clear>>
    /\ UNCHANGED notThread

\* a faulty start(): a fresh Thread for every call, which always starts
ThreadCanStartAgain(t) == TRUE

\* Thread.start() succeeds only on a Thread that was never started
ThreadCanStart(t) == t = "initial"

\* start(), line 114: self._thread.start()
StartThread ==
    /\ caller_pc = "start_thread"
    /\ IF ThreadCanStart(_thread)
         THEN /\ \E l \in LoopSlots :
                   /\ loops[l].pc = "unspawned"
                   /\ \A k \in LoopSlots : k < l => loops[k].pc # "unspawned"
                   /\ loops' = [loops EXCEPT ![l].pc = "begin_all"]
              /\ _thread' = "started"
              /\ last_call' = "start"
         ELSE /\ last_call' = "start_RuntimeError"
              /\ UNCHANGED <<_thread, loops>>
    /\ caller_pc' = "idle"
    /\ UNCHANGED <<_continue, _devices, starts_since_stop, ticks_after_clear>>
    /\ UNCHANGED notThread

\* stop(), line 117: self._continue = False
StopClearFlag ==
    /\ caller_pc = "idle"
    /\ _continue' = FALSE
    /\ caller_pc' = "stop_join"
    /\ starts_since_stop' = 0
    /\ ticks_after_clear' = 0
    /\ UNCHANGED <<_thread, _devices, loops, last_call>>
    /\ UNCHANGED notThread

\* Thread.join() returns once the thread's target has returned
JoinReturns(ls) == \A l \in LoopSlots : ls[l].pc \in {"unspawned", "exited"}

\* stop(), line 118: self._thread.join()
StopJoin ==
    /\ caller_pc = "stop_join"
    /\ IF _thread = "initial"
         THEN last_call' = "stop_RuntimeError"
         ELSE /\ JoinReturns(loops)
              /\ last_call' = "stop"
    /\ caller_pc' = "idle"
    /\ UNCHANGED <<_continue, _thread, _devices, loops, starts_since_stop,
                   ticks_after_clear>>
    /\ UNCHANGED notThread

\* _main_loop, line 124: self.begin_all()
BeginAll(l) ==
    /\ loops[l].pc = "begin_all"
    /\ loops' = [loops EXCEPT ![l].pc = "while"]
    /\ UNCHANGED <<_continue, _thread, _devices, caller_pc, last_call,
                   starts_since_stop, ticks_after_clear>>
    /\ UNCHANGED notThread

\* a faulty loop condition: `while True`
LoopForever(c) == TRUE

\* the loop condition of line 125
LoopCondition(c) == c

\* _main_loop, line 125: while self._continue
WhileCheck(l) ==
    /\ loops[l].pc = "while"
    /\ loops' = [loops EXCEPT ![l].pc =
                    IF LoopCondition(_continue) THEN "next" ELSE "exited"]
    /\ UNCHANGED <<_continue, _thread, _devices, caller_pc, last_call,
                   starts_since_stop, ticks_after_clear>>
    /\ UNCHANGED notThread

\* _main_loop, line 126: self.next() begins and computes the frame
NextCompute(l) ==
    /\ loops[l].pc = "next"
    /\ loops' = [loops EXCEPT ![l] = [pc |-> "write", dev |-> 1]]
    /\ ticks_after_clear' =
          IF caller_pc = "stop_join" THEN Bump(ticks_after_clear)
                                     ELSE ticks_after_clear
    /\ UNCHANGED <<_continue, _thread, _devices, caller_pc, last_call,
                   starts_since_stop>>
    /\ UNCHANGED notThread

\* next(): `for dev in self._devices: dev.set_lighting(...)`, one device a
\* step; the tick is over when the list is exhausted
NextWrite(l) ==
    /\ loops[l].pc = "write"
    /\ loops' = [loops EXCEPT ![l] =
                    IF loops[l].dev <= Len(_devices)
                      THEN [pc |-> "write", dev |-> loops[l].dev + 1]
                      ELSE [pc |-> "sleep", dev |-> 0]]
    /\ UNCHANGED <<_continue, _thread, _devices, caller_pc, last_call,
                   starts_since_stop, ticks_after_clear>>
    /\ UNCHANGED notThread

\* next() raises (a missing sensor, a failed transfer): the exception ends
\* the thread's target
NextRaises(l) ==
    /\ loops[l].pc \in {"next", "write"}
    /\ loops' = [loops EXCEPT ![l] = [pc |-> "exited", dev |-> 0]]
    /\ UNCHANGED <<_continue, _thread, _devices, caller_pc, last_call,
                   starts_since_stop, ticks_after_clear>>
    /\ UNCHANGED notThread

\* _main_loop, line 127: time.sleep(self._speed)
Sleep(l) ==
    /\ loops[l].pc = "sleep"
    /\ loops' = [loops EXCEPT ![l].pc = "while"]
    /\ UNCHANGED <<_continue, _thread, _devices, caller_pc, last_call,
                   starts_since_stop, ticks_after_clear>>
    /\ UNCHANGED notThread

MainLoop ==
    \E l \in LoopSlots :
        \/ BeginAll(l)
        \/ WhileCheck(l)
        \/ NextCompute(l)
        \/ NextWrite(l)
        \/ Sleep(l)

(***************************************************************************)
(* lighting_manager.py: LightingEffect.factory and the constructors it     *)
(* calls.  A Python str is a sequence of one-character strings, so that    *)
(* str.lower() and str.upper() are computed character by character.        *)
(***************************************************************************)
Small == <<"a", "b", "c", "d", "e", "f", "g", "h", "i", "j", "k", "l", "m", "n", "o", "p", "q", "r", "s", "t", "u", "v", "w", "x", "y", "z">>

Capital == <<"A", "B", "C", "D", "E", "F", "G", "H", "I", "J", "K", "L", "M", "N", "O", "P", "Q", "R", "S", "T", "U", "V", "W", "X", "Y", "Z">>

LowerChar(c) ==
    IF \E i \in 1..Len(Capital) : Capital[i] = c
      THEN Small[CHOOSE i \in 1..Len(Capital) : Capital[i] = c]
      ELSE c

UpperChar(c) ==
    IF \E i \in 1..Len(Small) : Small[i] = c
      THEN Capital[CHOOSE i \in 1..Len(Small) : Small[i] = c]
      ELSE c

\* str.lower()
Lower(str) == [i \in 1..Len(str) |-> LowerChar(str[i])]

\* str.upper()
Upper(str) == [i \in 1..Len(str) |-> UpperChar(str[i])]

\* `model = None` of the classes that declare no tag; no str equals it
NoneTag == <<"None">>

\* cls.inheritors(): every class derived from LightingEffect, with the
\* `model` attribute it declares or inherits
Inheritors == {
    [class |-> "AlternatingLightingEffect", base |-> "custom", model |-> <<"a", "l", "t", "e", "r", "n", "a", "t", "i", "n", "g">>],
    [class |-> "TemperatureLightingEffect", base |-> "custom", model |-> <<"t", "e", "m", "p", "e", "r", "a", "t", "u", "r", "e">>],
    [class |-> "Temperature2LightingEffect", base |-> "custom", model |-> <<"t", "e", "m", "p", "e", "r", "a", "t", "u", "r", "e", "2">>],
    [class |-> "ClockLightingEffect", base |-> "custom", model |-> <<"c", "l", "o", "c", "k">>],
    [class |-> "FullLightingEffect", base |-> "thermaltake", model |-> <<"f", "u", "l", "l">>],
    [class |-> "OffLightingEffect", base |-> "thermaltake", model |-> <<"o", "f", "f">>],
    [class |-> "PerLEDLightingEffect", base |-> "thermaltake", model |-> <<"p", "e", "r", "l", "e", "d">>],
    [class |-> "FlowLightingEffect", base |-> "thermaltake", model |-> <<"f", "l", "o", "w">>],
    [class |-> "SpectrumLightingEffect", base |-> "thermaltake", model |-> <<"s", "p", "e", "c", "t", "r", "u", "m">>],
    [class |-> "RippleLightingEffect", base |-> "thermaltake", model |-> <<"r", "i", "p", "p", "l", "e">>],
    [class |-> "BlinkLightingEffect", base |-> "thermaltake", model |-> <<"b", "l", "i", "n", "k">>],
    [class |-> "PulseLightingEffect", base |-> "thermaltake", model |-> <<"p", "u", "l", "s", "e">>],
    [class |-> "WaveLightingEffect", base |-> "thermaltake", model |-> <<"w", "a", "v", "e">>],
    [class |-> "CustomLightingEffect", base |-> "custom", model |-> NoneTag],
    [class |-> "ThreadedCustomLightingEffect", base |-> "custom", model |-> NoneTag],
    [class |-> "ThermaltakeLightingEffect", base |-> "thermaltake", model |-> NoneTag]}

\* subclass_dict = {clazz.model: clazz for clazz in cls.inheritors()};
\* subclass_dict.get(key) is the class registered under key, or None
SubclassDictGet(key) ==
    IF \E c \in Inheritors : c.model = key
      THEN CHOOSE c \in Inheritors : c.model = key
      ELSE [class |-> "None", base |-> "None", model |-> NoneTag]

\* clazz(config): "ok", or the exception the constructor raises.  The
\* configurations carry no 'speed' key, so both base constructors look up
\* the default 'normal'.  The Alternating, Temperature2 and Clock
\* constructors unpack or iterate the value of a nested key (odd_rgb and
\* even_rgb, cold_rgb and hot_rgb, timestamps): TypeError when config.get
\* returns None for it.
Construct(cls, cfg) ==
    IF /\ cls.class \in {"AlternatingLightingEffect",
                         "Temperature2LightingEffect",
                         "ClockLightingEffect"}
       /\ ~cfg.has_nested
      THEN "TypeError"
      ELSE "ok"

\* the configurations callers pass to factory
ModelNames == {m.model : m \in {c \in Inheritors : c.model # NoneTag}}
                 \cup {<<"d", "o", "e", "s", "n", "o", "t", "e", "x", "i", "s", "t">>}

Capitalize(str) == [i \in 1..Len(str) |-> IF i = 1 THEN UpperChar(str[i]) ELSE str[i]]

ModelValues == ModelNames \cup {Upper(n) : n \in ModelNames}
                          \cup {Capitalize(n) : n \in ModelNames}

Configs ==
    {[has_model |-> hm, model |-> m, has_nested |-> n] :
        hm \in BOOLEAN, m \in ModelValues, n \in BOOLEAN}

FactoryIdle ==
    /\ factory_arg = [has_model |-> FALSE, model |-> <<>>, has_nested |-> FALSE]
    /\ config = factory_arg
    /\ factory_result = "pending"
    /\ factory_model = NoneTag
    /\ factory_warned = FALSE

\* the exception clause of factory: only KeyError is caught
FactoryCatches(e) == e = "KeyError"

\* factory(config), lines 75-79
Factory ==
    LET cls == SubclassDictGet(Lower(config.model))
        raised == IF ~config.has_model THEN "KeyError"
                  ELSE IF cls.class = "None" THEN "TypeError"
                  ELSE Construct(cls, config)
    IN
    /\ factory_arg' = config
    /\ config' = [config EXCEPT !.has_model = FALSE]
    /\ IF raised = "ok"
         THEN /\ factory_result' = "instance"
              /\ factory_model' = cls.model
              /\ factory_warned' = FALSE
         ELSE IF FactoryCatches(raised)
           THEN /\ factory_result' = "None"
                /\ factory_model' = NoneTag
                /\ factory_warned' = TRUE
           ELSE /\ factory_result' = raised
                /\ factory_model' = NoneTag
                /\ factory_warned' = FALSE
    /\ UNCHANGED notFactory

(***************************************************************************)
(* lighting_manager.py: the one-shot effects (ThermaltakeLightingEffect    *)
(* and its subclasses).  An instance is its model tag, its configuration   *)
(* (the colour keys it holds, with their values) and its attached devices. *)
(* Mode and speed constants of RGB.Mode / RGB.Speed are opaque tags.       *)
(***************************************************************************)
OneShotModels == {"full", "off", "perled", "flow", "spectrum", "ripple",
                  "blink", "pulse", "wave"}

ColourKeys == {"r", "g", "b"}

ColourValues == {0, 255}

OneShotConfigs ==
    UNION {[keys -> ColourValues] : keys \in SUBSET ColourKeys}

\* the number of LED slots a colour is repeated for: `for i in range(12)`
LedSlots == 12

\* [g, r, b] repeated n times
Repeat(triple, n) == [i \in 1..(3 * n) |-> triple[((i - 1) % 3) + 1]]

\* g, r, b = self._config['g'], self._config['r'], self._config['b']:
\* the first key missing, in that order, is the KeyError; "none" if all
\* three are there
MissingKey(cfg) ==
    IF "g" \notin DOMAIN cfg THEN "g"
    ELSE IF "r" \notin DOMAIN cfg THEN "r"
    ELSE IF "b" \notin DOMAIN cfg THEN "b"
    ELSE "none"

GRB(cfg) == <<cfg["g"], cfg["r"], cfg["b"]>>

\* one device.set_lighting(mode=, speed=, values=) call per attached device
SetLightingAll(mode, speed, values) ==
    [d \in 1..Len(_devices) |->
        [dev |-> _devices[d], mode |-> mode, speed |-> speed, values |-> values]]

OneShotIdle ==
    /\ model = "off"
    /\ _config = <<>>
    /\ lighting = <<>>
    /\ start_result = "pending"
    /\ warned = "none"

\* FullLightingEffect.start and PerLEDLightingEffect.start: the except clause
\* logs and falls through to the device loop with values still []
StartFull(mode) ==
    LET missing == MissingKey(_config)
        values == IF missing = "none" THEN Repeat(GRB(_config), LedSlots) ELSE <<>>
    IN
    /\ warned' = missing
    /\ lighting' = SetLightingAll(mode, 0, values)
    /\ start_result' = "returned"

\* OffLightingEffect.start
StartOff ==
    /\ warned' = "none"
    /\ lighting' = SetLightingAll("FULL", 0, [i \in 1..(3 * LedSlots) |-> 0])
    /\ start_result' = "returned"

\* FlowLightingEffect.start and SpectrumLightingEffect.start
StartSpeedOnly(mode) ==
    /\ warned' = "none"
    /\ lighting' = SetLightingAll(mode, "NORMAL", "default")
    /\ start_result' = "returned"

\* RippleLightingEffect.start (n = 1), BlinkLightingEffect.start and
\* PulseLightingEffect.start (n = 12): the except clause logs and returns
StartColoured(mode, n) ==
    LET missing == MissingKey(_config) IN
    /\ warned' = missing
    /\ lighting' = IF missing = "none"
                     THEN SetLightingAll(mode, "NORMAL", Repeat(GRB(_config), n))
                     ELSE <<>>
    /\ start_result' = "returned"

\* WaveLightingEffect.start
StartWave ==
    /\ warned' = "none"
    /\ lighting' = <<>>
    /\ start_result' = "NotImplementedError"

\* what start() of a one-shot effect leaves alone
StartUnchanged ==
    UNCHANGED <<model, _config, driverVars, ctorVars, threadVars, factoryVars,
                tickVars>>

\* effect.start() of a one-shot effect, by the instance's type
FullStart ==
    /\ model = "full"
    /\ StartFull("FULL")
    /\ StartUnchanged

PerLEDStart ==
    /\ model = "perled"
    /\ StartFull("BY_LED")
    /\ StartUnchanged

OffStart ==
    /\ model = "off"
    /\ StartOff
    /\ StartUnchanged

FlowStart ==
    /\ model = "flow"
    /\ StartSpeedOnly("FLOW")
    /\ StartUnchanged

SpectrumStart ==
    /\ model = "spectrum"
    /\ StartSpeedOnly("SPECTRUM")
    /\ StartUnchanged

RippleStart ==
    /\ model = "ripple"
    /\ StartColoured("RIPPLE", 1)
    /\ StartUnchanged

BlinkStart ==
    /\ model = "blink"
    /\ StartColoured("BLINK", LedSlots)
    /\ StartUnchanged

PulseStart ==
    /\ model = "pulse"
    /\ StartColoured("PULSE", LedSlots)
    /\ StartUnchanged

WaveStart ==
    /\ model = "wave"
    /\ StartWave
    /\ StartUnchanged

Start ==
    \/ FullStart
    \/ PerLEDStart
    \/ OffStart
    \/ FlowStart
    \/ SpectrumStart
    \/ RippleStart
    \/ BlinkStart
    \/ PulseStart
    \/ WaveStart

(***************************************************************************)
(* lighting_manager.py: the frame computations of the periodic effects     *)
(* (TemperatureLightingEffect.next, Temperature2LightingEffect.next,       *)
(* ClockLightingEffect.next) and compass_to_rgb.                           *)
(*                                                                         *)
(* Python's float quotients are kept exact, as fractions [n, d] with       *)
(* d > 0.  Sensor readings and breakpoints are whole degrees; a datetime   *)
(* is a whole number of hours since midnight of the day the effect was     *)
(* constructed (the day dateutil's parse() puts a time-of-day string on).  *)
(***************************************************************************)
Frac(n, d) == [n |-> n, d |-> d]

\* round(n / d), d > 0: Python rounds a half to the even neighbour
Round(n, d) ==
    LET fl == n \div d
        twice == 2 * (n - fl * d)
    IN  IF twice < d THEN fl
        ELSE IF twice > d THEN fl + 1
        ELSE IF fl % 2 = 0 THEN fl
        ELSE fl + 1

\* compass_to_rgb(h) with s = v = 1, for h = h.n / h.d >= 0
compass_to_rgb(h) ==
    LET den == 60 * h.d
        h60f == h.n \div den
        hi == h60f % 6
        fn == h.n - den * h60f
        v == 255
        p == 0
        q == (255 * (den - fn)) \div den
        t == (255 * fn) \div den
        rgb == CASE hi = 0 -> <<v, t, p>>
                 [] hi = 1 -> <<q, v, p>>
                 [] hi = 2 -> <<p, v, t>>
                 [] hi = 3 -> <<p, q, v>>
                 [] hi = 4 -> <<t, p, v>>
                 [] hi = 5 -> <<v, p, q>>
    IN  <<rgb[2], rgb[1], rgb[3]>>

\* class attributes of TemperatureLightingEffect
cold_angle == 240

target_angle == 120

hot_angle == 0

\* TemperatureLightingEffect.next, lines 183-196: the new self.angle
TemperatureAngle(c, t, h, temp, old_angle) ==
    IF temp <= c THEN Frac(cold_angle, 1)
    ELSE IF temp < t
      THEN Frac((cold_angle - target_angle) * (t - temp), t - c)
    ELSE IF temp = t THEN Frac(target_angle, 1)
    ELSE IF temp > h THEN Frac(hot_angle, 1)
    ELSE IF temp > t
      THEN Frac(120 * (h - t) - (target_angle - hot_angle) * (temp - t), h - t)
    ELSE old_angle

\* values for one device: the colour once per LED
Broadcast(triple) == Repeat(triple, NumLeds)

TickIdle ==
    /\ kind = "none"
    /\ cold = 0
    /\ target = 0
    /\ hot = 0
    /\ cold_rgb = <<0, 0, 0>>
    /\ hot_rgb = <<0, 0, 0>>
    /\ timestamps = <<>>
    /\ cur_temp = 0
    /\ angle = Frac(0, 1)
    /\ cur_rgb = <<0, 0, 0>>
    /\ factor = Frac(0, 1)
    /\ now = 0
    /\ prev = [seen |-> FALSE, temp |-> 0, angle |-> Frac(0, 1)]
    /\ tick_result = "pending"

\* next() raised before it reached the device loop
TickRaises(e) ==
    /\ tick_result' = e
    /\ lighting' = <<>>

\* TemperatureLightingEffect.next
TemperatureNext(sensor, reading) ==
    /\ kind = "temperature"
    /\ IF ~sensor
         THEN /\ TickRaises("TypeError")
              /\ UNCHANGED <<cur_temp, angle, prev>>
         ELSE LET a == TemperatureAngle(cold, target, hot, reading, angle) IN
              /\ cur_temp' = reading
              /\ angle' = a
              /\ prev' = IF tick_result = "returned"
                           THEN [seen |-> TRUE, temp |-> cur_temp, angle |-> angle]
                           ELSE prev
              /\ lighting' = SetLightingAll("BY_LED", "default", Broadcast(compass_to_rgb(a)))
              /\ tick_result' = "returned"
    /\ UNCHANGED <<kind, cold, target, hot, cold_rgb, hot_rgb, timestamps,
                   cur_rgb, factor, now>>
    /\ UNCHANGED <<threadVars, driverVars, ctorVars, factoryVars, model, _config,
                   start_result, warned>>

\* Temperature2LightingEffect.next, lines 227-230: the clamped reading
Clamp(c, h, temp) == IF temp < c THEN c ELSE IF temp > h THEN h ELSE temp

\* Temperature2LightingEffect.next
Temperature2Next(sensor, reading) ==
    /\ kind = "temperature2"
    /\ IF ~sensor
         THEN /\ TickRaises("TypeError")
              /\ UNCHANGED <<cur_temp, cur_rgb, factor>>
         ELSE LET temp == Clamp(cold, hot, reading) IN
              /\ cur_temp' = temp
              /\ IF hot - cold = 0
                   THEN /\ TickRaises("ZeroDivisionError")
                        /\ UNCHANGED <<cur_rgb, factor>>
                   ELSE LET f == IF hot - cold > 0
                                   THEN Frac(temp - cold, hot - cold)
                                   ELSE Frac(cold - temp, cold - hot)
                            rgb == [i \in 1..3 |->
                                      cold_rgb[i]
                                        + Round(f.n * (hot_rgb[i] - cold_rgb[i]), f.d)]
                        IN  /\ factor' = f
                            /\ cur_rgb' = rgb
                            /\ lighting' = SetLightingAll("BY_LED", "default", Broadcast(rgb))
                            /\ tick_result' = "returned"
    /\ UNCHANGED <<kind, cold, target, hot, cold_rgb, hot_rgb, timestamps,
                   angle, now, prev>>
    /\ UNCHANGED <<threadVars, driverVars, ctorVars, factoryVars, model, _config,
                   start_result, warned>>

\* one_day = datetime.timedelta(days=1), in hours
one_day == 24

NoAnchor == [i |-> 0, delta |-> 0]

\* `if not before or before[1] > timedelta: before = (i, timedelta)`
Nearer(best, i, timedelta) ==
    IF best.i = 0 \/ best.delta > timedelta
      THEN [i |-> i, delta |-> timedelta]
      ELSE best

\* ClockLightingEffect.next, lines 263-282: the loop over self.timestamps
\* from index i on; gives [before, after]
RECURSIVE ClockScan(_, _, _, _, _)
ClockScan(ts, t_now, i, before, after) ==
    IF i > Len(ts) THEN [before |-> before, after |-> after]
    ELSE LET time == ts[i][1] IN
         IF t_now > time
           THEN ClockScan(ts, t_now, i + 1,
                          Nearer(before, i, t_now - time),
                          Nearer(after, i, (time + one_day) - t_now))
           ELSE ClockScan(ts, t_now, i + 1,
                          Nearer(before, i, t_now - (time - one_day)),
                          Nearer(after, i, time - t_now))

\* line 286: round(a + (b - a) * factor)
Interpolate(a, b, f) == Round(a * f.d + (b - a) * f.n, f.d)

\* the channels line 285 recomputes: `for i in range(0, 2)`
ClockChannels == {1, 2}

\* ClockLightingEffect.next
ClockNext(t_now) ==
    /\ kind = "clock"
    /\ t_now >= now
    /\ now' = t_now
    /\ LET found == ClockScan(timestamps, t_now, 1, NoAnchor, NoAnchor)
           before == found.before
           after == found.after
       IN  IF before.i = 0
             THEN /\ TickRaises("TypeError")
                  /\ UNCHANGED <<cur_rgb, factor>>
           ELSE IF before.delta + after.delta = 0
             THEN /\ TickRaises("ZeroDivisionError")
                  /\ UNCHANGED <<cur_rgb, factor>>
           ELSE LET sum == before.delta + after.delta
                    f == IF sum > 0 THEN Frac(before.delta, sum)
                                    ELSE Frac(-before.delta, -sum)
                    rgb == [i \in 1..3 |->
                              IF i \in ClockChannels
                                THEN Interpolate(timestamps[before.i][i + 1],
                                                 timestamps[after.i][i + 1], f)
                                ELSE cur_rgb[i]]
                    cur_grb == <<rgb[2], rgb[1], rgb[3]>>
                IN  /\ factor' = f
                    /\ cur_rgb' = rgb
                    /\ lighting' = SetLightingAll("BY_LED", "default", Broadcast(cur_grb))
                    /\ tick_result' = "returned"
    /\ UNCHANGED <<kind, cold, target, hot, cold_rgb, hot_rgb, timestamps,
                   cur_temp, angle, prev>>
    /\ UNCHANGED <<threadVars, driverVars, ctorVars, factoryVars, model, _config,
                   start_result, warned>>

(***************************************************************************)
(* Specifications and claims: drivers.py                                   *)
(***************************************************************************)
InitDriver == DriverIdle /\ CtorIdle /\ ThreadIdle /\ FactoryIdle /\ OneShotIdle /\ TickIdle

SpecDriver == InitDriver /\ [][NextDriver]_vars

\* C1: for every payload of length 0..64 passed to write_out (default length
\* 64) the array handed to the OUT endpoint has exactly 64 elements, starts
\* with the payload in order, and is 0x00 everywhere after it.
C1_PaddedTo64 ==
    (called # "none" /\ Len(data) <= PacketLength) =>
        /\ Len(handed) = PacketLength
        /\ \A i \in 1..Len(data) : handed[i] = data[i]
        /\ \A i \in (Len(data) + 1)..PacketLength : handed[i] = 0

C1_Witness ==
    /\ called = "write_out"
    /\ Len(data) = 3
    /\ transmitted
    /\ handed = <<1, 2, 3>> \o [i \in 1..61 |-> 0]

\* C2: a payload longer than 64 bytes is silently discarded: nothing is
\* transmitted and no fault reaches the caller, so every packet write_out
\* puts on the wire has exactly 64 bytes.  (Calls whose transfer the bus
\* failed are left out: the claim is about what write_out itself does.)
C2_OverlongDiscarded ==
    fault # "USBError" =>
        /\ (called # "none" /\ Len(data) > PacketLength) =>
               (~transmitted /\ fault = "none")
        /\ transmitted => Len(handed) = PacketLength

(***************************************************************************)
(* Specifications and claims: construction of the driver                   *)
(***************************************************************************)
InitCtor ==
    /\ \E unit \in Units : product_id = ProductId(unit)
    /\ bus \in SUBSET ProductIds
    /\ kernel_driver_active \in BOOLEAN
    /\ endpoints \in EndpointLists(MaxEndpoints)
    /\ device = NoDevice
    /\ detach = "none"
    /\ endpoint_out = UnsetEndpoint
    /\ endpoint_in = UnsetEndpoint
    /\ usb_calls = <<>>
    /\ ctor_pc = "find"
    /\ ctor_fault = "none"
    /\ DriverIdle /\ ThreadIdle /\ FactoryIdle /\ OneShotIdle /\ TickIdle

SpecCtor == InitCtor /\ [][NextCtor]_vars

\* the steps of a construction that runs to its end, with and without the
\* detach of a kernel driver
StepOrder(with_detach) ==
    <<"find", "reset">>
        \o (IF with_detach THEN <<"detach_kernel_driver">> ELSE <<>>)
        \o <<"set_configuration", "claim_interface", "endpoint_out", "endpoint_in",
             "init_controller">>

IsPrefix(s, t) ==
    /\ Len(s) <= Len(t)
    /\ \A i \in 1..Len(s) : s[i] = t[i]

LastCall == IF usb_calls = <<>> THEN "none" ELSE usb_calls[Len(usb_calls)]

InitPacket == <<254, 51>> \o [i \in 1..(PacketLength - 2) |-> 0]

\* no packet was written to the device
NothingWritten ==
    /\ called = "none"
    /\ handed = <<>>
    /\ ~transmitted

\* C11: the steps of the construction are taken in the order find, reset,
\* detach of the kernel driver (exactly when one is active), set
\* configuration, claim of interface 0, discovery of the OUT and then the IN
\* endpoint, init packet [0xfe, 0x33].  A failed detach does not end the
\* construction: it goes on to set the configuration, and a construction that
\* completes has sent the init packet.  A device that is not found, a failed
\* claim and a missing endpoint each end the construction with the fault
\* reaching the caller, and without any packet written to the device.
C11_ConstructionOrder ==
    /\ IsPrefix(usb_calls, StepOrder(kernel_driver_active))
    /\ (detach # "none") = ("detach_kernel_driver" \in {usb_calls[i] : i \in 1..Len(usb_calls)})
    /\ detach = "failed" =>
           /\ LastCall = "detach_kernel_driver" =>
                  (ctor_pc = "set_configuration" /\ ctor_fault = "none")
           /\ ctor_pc = "aborted" => LastCall # "detach_kernel_driver"
    /\ ctor_pc = "constructed" =>
           /\ usb_calls = StepOrder(kernel_driver_active)
           /\ ctor_fault = "none"
           /\ called = "init_controller" /\ handed = InitPacket /\ transmitted
    /\ (LastCall = "find" /\ device = NoDevice) =>
           (ctor_pc = "aborted" /\ ctor_fault = "ValueError" /\ NothingWritten)
    /\ (LastCall = "claim_interface" /\ ctor_pc # "endpoint_out") =>
           (ctor_pc = "aborted" /\ ctor_fault = "USBError" /\ NothingWritten)
    /\ (endpoint_out = NoEndpoint \/ endpoint_in = NoEndpoint) =>
           (ctor_pc = "aborted" /\ ctor_fault = "AssertionError" /\ NothingWritten)
    /\ ctor_pc = "aborted" =>
           /\ ctor_fault # "none"
           /\ LastCall # "init_controller" => NothingWritten
    /\ ctor_fault # "none" => ctor_pc = "aborted"

\* a kernel driver was active, its detach failed, and the construction still
\* completed with the init packet on the wire
C11_Witness ==
    /\ kernel_driver_active
    /\ detach = "failed"
    /\ ctor_pc = "constructed"
    /\ usb_calls = StepOrder(TRUE)
    /\ transmitted
    /\ handed = InitPacket

(***************************************************************************)
(* Specifications and claims: ThreadedCustomLightingEffect                 *)
(***************************************************************************)
InitThread == ThreadIdle /\ DriverIdle /\ CtorIdle /\ FactoryIdle /\ OneShotIdle /\ TickIdle

NextThread ==
    \/ AttachDevice
    \/ StartSetFlag
    \/ StartThread
    \/ StopClearFlag
    \/ StopJoin
    \/ MainLoop
    \/ \E l \in LoopSlots : NextRaises(l)

SpecThread == InitThread /\ [][NextThread]_vars

\* The operating system schedules a started thread, and next() and sleep()
\* return: the loop keeps taking its steps.
FairSpecThread == SpecThread /\ WF_vars(MainLoop)

\* C3: after start(), a following stop() clears the continue-flag, the loop
\* eventually exits, stop() returns only after the loop has exited, and at
\* most one further next() call begins after the flag was cleared.
C3_StopTerminates ==
    /\ [](caller_pc = "stop_join" => ~_continue)
    /\ []((caller_pc = "idle" /\ last_call = "stop") =>
              \A l \in LoopSlots : ~Running(l))
    /\ [](ticks_after_clear <= 1)
    /\ (caller_pc = "stop_join" /\ _thread = "started")
           ~> (\A l \in LoopSlots : ~Running(l))

C3_Witness ==
    /\ caller_pc = "idle"
    /\ last_call = "stop"
    /\ ticks_after_clear = 1
    /\ loops[1].pc = "exited"

\* C4 (as stated): a second start() without an intervening stop() spawns a
\* second loop that runs concurrently with the first.
C4_SecondLoopSpawned ==
    (starts_since_stop >= 2 /\ caller_pc = "idle" /\ Running(1)) =>
        Cardinality({l \in LoopSlots : Running(l)}) >= 2

\* C4 (amended): a second start() on the same instance sets the continue-flag
\* and fails with RuntimeError; it spawns no loop, so at most one execution
\* of _main_loop ever exists for an instance.
C4_SecondStartRaises ==
    /\ Cardinality(Spawned) <= 1
    /\ (starts_since_stop >= 2 /\ caller_pc = "idle") =>
           (last_call = "start_RuntimeError" /\ _continue)

C4_Witness ==
    /\ starts_since_stop >= 2
    /\ caller_pc = "idle"
    /\ last_call = "start_RuntimeError"
    /\ loops[1].pc = "write"
    /\ Len(_devices) = 2

\* C10: within one instance, under any sequence of start() and stop() calls,
\* no two next() computations are in progress at the same time and a tick's
\* device writes are over before the next computation begins.
C10_TicksSequential ==
    Cardinality({l \in LoopSlots : loops[l].pc \in {"next", "write"}}) <= 1

C10_Witness ==
    /\ last_call = "start_RuntimeError"
    /\ starts_since_stop = 2
    /\ Len(_devices) = 1
    /\ loops[1] = [pc |-> "write", dev |-> 2]

(***************************************************************************)
(* Specifications and claims: LightingEffect.factory                       *)
(***************************************************************************)
InitFactory ==
    /\ DriverIdle
    /\ CtorIdle
    /\ ThreadIdle
    /\ OneShotIdle
    /\ TickIdle
    /\ factory_arg = [has_model |-> FALSE, model |-> <<>>, has_nested |-> FALSE]
    /\ config \in Configs
    /\ factory_result = "pending"
    /\ factory_model = NoneTag
    /\ factory_warned = FALSE

NextFactory == Factory

SpecFactory ==
    InitFactory /\ [][NextFactory]_vars

Registered(str) == \E c \in Inheritors : c.model = Lower(str)

\* C5: factory(config) never raises: a 'model' naming a registered type
\* (case-insensitively) gives an instance tagged with the lowercase name; a
\* missing 'model' key, or one naming no registered type, logs a warning and
\* returns nothing.  (Stated for the configurations that hold the nested keys
\* a constructor needs, so that only factory's own handling is in question.)
C5_FactoryNeverRaises ==
    (factory_result # "pending" /\ factory_arg.has_nested) =>
        /\ factory_result \in {"instance", "None"}
        /\ (factory_arg.has_model /\ Registered(factory_arg.model)) =>
               (factory_result = "instance"
                    /\ factory_model = Lower(factory_arg.model))
        /\ (~factory_arg.has_model \/ ~Registered(factory_arg.model)) =>
               (factory_result = "None" /\ factory_warned)

(***************************************************************************)
(* Specifications and claims: one-shot effects                             *)
(***************************************************************************)
InitOneShot ==
    /\ DriverIdle
    /\ CtorIdle
    /\ ThreadIdle
    /\ FactoryIdle
    /\ TickIdle
    /\ model \in OneShotModels
    /\ _config \in OneShotConfigs
    /\ lighting = <<>>
    /\ start_result = "pending"
    /\ warned = "none"

NextOneShot ==
    \/ AttachDevice
    \/ Start

SpecOneShot ==
    InitOneShot /\ [][NextOneShot]_vars

\* C6: a colour-bearing one-shot effect (full, perled, ripple, blink, pulse)
\* whose configuration lacks any of r, g or b logs a warning in start(),
\* calls set_lighting on no attached device, and returns without raising.
C6_MissingColourSkipsSend ==
    (/\ start_result # "pending"
     /\ model \in {"full", "perled", "ripple", "blink", "pulse"}
     /\ DOMAIN _config # ColourKeys) =>
        /\ warned # "none"
        /\ lighting = <<>>
        /\ start_result = "returned"

(***************************************************************************)
(* Specifications and claims: the frame computations                       *)
(***************************************************************************)
Temps == 0..MaxTemp

Readings == 0..(MaxTemp + 1)

Palette == {<<0, 0, 0>>, <<255, 100, 50>>, <<10, 20, 200>>}

AnchorTimes == {0, 6, 12}

Anchors == {<<t, c[1], c[2], c[3]>> : t \in AnchorTimes, c \in Palette}

AnchorLists == UNION {[1..n -> Anchors] : n \in 0..MaxAnchors}

Hours == 0..((MaxDays + 1) * one_day - 1)

InitTick ==
    /\ DriverIdle
    /\ CtorIdle
    /\ ThreadIdle
    /\ FactoryIdle
    /\ OneShotIdle
    /\ kind \in {"temperature", "temperature2", "clock"}
    /\ cold \in IF kind = "clock" THEN {0} ELSE Temps
    /\ target \in IF kind = "temperature" THEN Temps ELSE {0}
    /\ hot \in IF kind = "clock" THEN {0} ELSE Temps
    /\ kind = "temperature" => (cold < target /\ target < hot)
    /\ cold_rgb \in IF kind = "temperature2" THEN Palette ELSE {<<0, 0, 0>>}
    /\ hot_rgb \in IF kind = "temperature2" THEN Palette ELSE {<<0, 0, 0>>}
    /\ timestamps \in IF kind = "clock" THEN AnchorLists ELSE {<<>>}
    /\ cur_temp = 0
    /\ angle = Frac(0, 1)
    /\ cur_rgb = <<0, 0, 0>>
    /\ factor = Frac(0, 1)
    /\ now = 0
    /\ prev = [seen |-> FALSE, temp |-> 0, angle |-> Frac(0, 1)]
    /\ tick_result = "pending"

\* devices are attached before the effect is started
TickAttach ==
    /\ tick_result = "pending"
    /\ AttachDevice

NextTick ==
    \/ TickAttach
    \/ \E sensor \in BOOLEAN, reading \in Readings : TemperatureNext(sensor, reading)
    \/ \E sensor \in BOOLEAN, reading \in Readings : Temperature2Next(sensor, reading)
    \/ \E t_now \in Hours : ClockNext(t_now)

SpecTick ==
    InitTick /\ [][NextTick]_vars

FracLeq(a, b) == a.n * b.d <= b.n * a.d

FracEq(a, b) == a.n * b.d = b.n * a.d

\* C7: with cold < target < hot the hue angle of a Temperature tick is 240
\* for a reading <= cold, 0 for a reading >= hot, 120 at target, between 240
\* and 120 for cold < reading < target, between 120 and 0 for
\* target < reading < hot, and never larger for a larger reading.
C7_TemperatureAngle ==
    (kind = "temperature" /\ tick_result = "returned"
        /\ cold < target /\ target < hot) =>
        /\ cur_temp <= cold => FracEq(angle, Frac(240, 1))
        /\ cur_temp >= hot => FracEq(angle, Frac(0, 1))
        /\ cur_temp = target => FracEq(angle, Frac(120, 1))
        /\ (cold < cur_temp /\ cur_temp < target) =>
               FracLeq(Frac(120, 1), angle) /\ FracLeq(angle, Frac(240, 1))
        /\ (target < cur_temp /\ cur_temp < hot) =>
               FracLeq(Frac(0, 1), angle) /\ FracLeq(angle, Frac(120, 1))
        /\ (prev.seen /\ prev.temp <= cur_temp) => FracLeq(angle, prev.angle)
        /\ (prev.seen /\ cur_temp <= prev.temp) => FracLeq(prev.angle, angle)

\* C8: a Clock tick exactly at the midpoint between two anchors 12 hours
\* apart broadcasts, in (green, red, blue) order, the average of the two
\* anchors' values in each of the three channels.
C8_ClockMidpointAverage ==
    (/\ kind = "clock" /\ tick_result = "returned"
     /\ Len(timestamps) = 2
     /\ now < one_day
     /\ \/ timestamps[1][1] - timestamps[2][1] = 12
        \/ timestamps[2][1] - timestamps[1][1] = 12
     /\ \/ 2 * now = timestamps[1][1] + timestamps[2][1]
        \/ 2 * now = timestamps[1][1] + timestamps[2][1] + one_day
        \/ 2 * now = timestamps[1][1] + timestamps[2][1] - one_day) =>
        LET avg(ch) == Round(timestamps[1][ch] + timestamps[2][ch], 2) IN
        \A d \in 1..Len(lighting) :
            lighting[d].values = Broadcast(<<avg(3), avg(2), avg(4)>>)

\* C9: on every tick of Temperature2 (cold < hot) and of Clock (any anchors,
\* any current time, on the day of construction or days later) the
\* interpolation factor lies in [0,1].
C9_FactorInUnitInterval ==
    (/\ tick_result = "returned"
     /\ \/ kind = "temperature2" /\ cold < hot
        \/ kind = "clock") =>
        (0 <= factor.n /\ factor.n <= factor.d)

====
